---------------------------- MODULE Spec2Model ----------------------------
(***************************************************************************)
(* A model of the standalone scripts of the repository:                    *)
(*   - the sorting functions of shree.py, eye.py, nd.py and night.py       *)
(*     (SpecSort),                                                         *)
(*   - the console scripts 4.py, analyiz.py, ml_procedural.py, eye.py and  *)
(*     shree.py: data load, menu loop, dispatch (SpecMenu),                *)
(*   - the key listener of game_key_logger.py (SpecKey),                   *)
(*   - the methods of the resume keyword extractor that the test suites    *)
(*     call; their source is not in the repository, so they are modelled   *)
(*     from their documented behaviour and run on the tests' fixtures      *)
(*     (SpecResume),                                                       *)
(*   - the sales incentive calculator at the end of 4.py, run by           *)
(*     streamlit (SpecSales),                                              *)
(*   - image_ocr_app.py: model loading, upload, display and the text       *)
(*     extraction handler (SpecOcr),                                       *)
(*   - display_data of ml_procedural.py, compare_all_algorithms of         *)
(*     analyiz.py and run_sorting_analysis of eye.py, each called on its   *)
(*     own (SpecFunctions).                                                *)
(* Each script is a separate program, so each has its own specification;   *)
(* the variables of the programs that are not running keep their initial   *)
(* values.                                                                 *)
(***************************************************************************)
EXTENDS Integers, Sequences, FiniteSets, TLC

VARIABLES
    \* ---- a call of a sorting function ----
    sortScript,     \* the script whose function is called
    sort_function,  \* the name of the function called
    data,           \* the caller's list (the argument is data.copy())
    arr,            \* the list object passed to the function
    result,         \* <<>> while nothing was returned or None was; <<v>> for v
    sortPc,         \* "idle" | "call" | "returned"
    \* ---- a run of a console script ----
    script,         \* "4" | "analyiz" | "ml_procedural" | "eye" | "shree"
    files,          \* the files that exist when the script runs
    pc,             \* "idle" | "start" | "sales_page" | "prompt" | "done" | "crashed"
    df,             \* "unset" | "None" | "DataFrame": the loaded data
    preprocessed,   \* missing values filled and categories encoded
    split,          \* train_test_split was done
    prompts,        \* how many times the main menu prompt was shown
    choice,         \* the last entry at the main menu prompt ("" before one)
    ops,            \* the operations the last loop iteration ran
    out,            \* the messages the last step printed
    exc,            \* the uncaught exception that ended the run, or "none"
    \* ---- a run of game_key_logger.py ----
    mainPc,         \* main thread: "idle" | "start" | "join" | "exited"
    listening,      \* the listener thread is running
    cb,             \* on_press in progress: "none" | "opened" | "written"
    key_data,       \* on_press: the text logged for the key
    handles,        \* per thread, its open handles on key_log.txt
    key_log,        \* the lines appended to key_log.txt
    events,         \* the key events the callbacks were called for
    \* ---- a call of a method of the resume keyword extractor ----
    method,         \* the method called
    args,           \* its arguments, a record
    ret,            \* what it returned or raised, a record
    callPc,         \* "idle" | "call" | "returned"; the same four variables
                    \* hold a call of a function of a console script
    \* ---- a run of the sales incentive calculator of 4.py ----
    salesPc,        \* "idle" | "details" | "entry" | "convert" | "match" |
                    \* "display" | "done"
    name,           \* the text of the name input
    user_id,        \* the text of the Employee ID input, or the generated id
    sales_input,    \* the text of the sales input
    raw_sales,      \* float(sales_input), a fraction
    sales_lakh,     \* the sales in lakh, a fraction
    matched_bonus,  \* the rate of the slab matched, in percent
    bonus_amount,   \* the bonus in rupees, a fraction
    shown,          \* the elements the run has put on the page
    previous,       \* <<>>, or the sales and rate of the run before this one
    \* ---- a run of image_ocr_app.py ----
    ocrPc,          \* "idle" | "load" | "upload" | "open" | "display" |
                    \* "pressed" | "ocr" | "summarize" | "keywords" |
                    \* "results" | "done"
    summarizer,     \* "unset" | "pipeline" | "None": what load_models gave
    image_file,     \* <<>> for no upload, or <<the uploaded file>>
    new_width,      \* the width computed for display
    new_height,     \* the height computed for display
    tmp_files,      \* the temporary files of the run that exist
    extracted_text, \* <<>>, or <<the number of words of the text read>>
    summarizer_calls, \* how many times the run evaluated summarizer(...)
    ocrOut          \* the elements the run has put on the page

sortVars == <<sortScript, sort_function, data, arr, result, sortPc>>

menuVars == <<script, files, pc, df, preprocessed, split, prompts, choice,
              ops, out, exc>>

keyVars == <<mainPc, listening, cb, key_data, handles, key_log, events>>

callVars == <<method, args, ret, callPc>>

salesVars == <<salesPc, name, user_id, sales_input, raw_sales, sales_lakh,
               matched_bonus, bonus_amount, shown, previous>>

ocrVars == <<ocrPc, summarizer, image_file, new_width, new_height, tmp_files,
             extracted_text, summarizer_calls, ocrOut>>

vars == <<sortVars, menuVars, keyVars, callVars, salesVars, ocrVars>>

\* what the actions of one program leave alone: the other programs
exceptSort == <<menuVars, keyVars, callVars, salesVars, ocrVars>>
exceptMenu == <<sortVars, keyVars, callVars, salesVars, ocrVars>>
exceptKey == <<sortVars, menuVars, callVars, salesVars, ocrVars>>
exceptCall == <<sortVars, menuVars, keyVars, salesVars, ocrVars>>
exceptSales == <<sortVars, menuVars, keyVars, callVars, ocrVars>>
exceptOcr == <<sortVars, menuVars, keyVars, callVars, salesVars>>

-----------------------------------------------------------------------------
(* Bounds of the model *)

\* the longest input list
MaxLen == 4
\* list elements are drawn from -1..MaxVal
MaxVal == 2

Vals == (0 - 1)..MaxVal
Lists == UNION {[1..n -> Vals] : n \in 0..MaxLen}

-----------------------------------------------------------------------------
(* Python lists are indexed from 0, TLA+ sequences from 1 *)

Get(a, j) == a[j + 1]
Set(a, j, v) == [a EXCEPT ![j + 1] = v]
\* a[lo:hi]
Slice(a, lo, hi) == SubSeq(a, lo + 1, hi)

-----------------------------------------------------------------------------
(* bubble_sort of eye.py (lines 6-11); nd.py 10-15 and night.py 10-15 are   *)
(* the same text                                                            *)

\* arr[j], arr[j + 1] = arr[j + 1], arr[j]
swap(a, j) == Set(Set(a, j, Get(a, j + 1)), j + 1, Get(a, j))

\* a mutation of the inner range: range(0, n - i - 2)
inner_stop_short(n, i) == n - i - 2
\* the end of the inner range: range(0, n - i - 1)
inner_stop(n, i) == n - i - 1

\* for j in range(j, stop): if arr[j] > arr[j + 1]: swap
RECURSIVE bubble_inner(_, _, _)
bubble_inner(a, j, stop) ==
    IF j >= stop THEN a
    ELSE bubble_inner(IF Get(a, j) > Get(a, j + 1) THEN swap(a, j) ELSE a,
                      j + 1, stop)

\* for i in range(i, n): the inner loop
RECURSIVE bubble_outer(_, _, _)
bubble_outer(a, i, n) ==
    IF i >= n THEN a
    ELSE bubble_outer(bubble_inner(a, 0, inner_stop(n, i)), i + 1, n)

bubble_sort(a) == bubble_outer(a, 0, Len(a))

-----------------------------------------------------------------------------
(* bubble_sort of shree.py (lines 8-13) *)

\* arr[j], arr[j + 1] = arr[j], arr[j]
shree_swap(a, j) == Set(Set(a, j, Get(a, j)), j + 1, Get(a, j))

RECURSIVE shree_bubble_inner(_, _, _)
shree_bubble_inner(a, j, stop) ==
    IF j >= stop THEN a
    ELSE shree_bubble_inner(
             IF Get(a, j) > Get(a, j + 1) THEN shree_swap(a, j) ELSE a,
             j + 1, stop)

RECURSIVE shree_bubble_outer(_, _, _)
shree_bubble_outer(a, i, n) ==
    IF i >= n THEN a
    ELSE shree_bubble_outer(shree_bubble_inner(a, 0, n - i - 1), i + 1, n)

shree_bubble_sort(a) == shree_bubble_outer(a, 0, Len(a))

-----------------------------------------------------------------------------
(* merge_sort of eye.py (lines 13-40); nd.py 17-40, night.py 17-40 and      *)
(* shree.py 16-43 are the same text                                         *)

\* a mutation of the last loop: the rest of right_half is not copied
merge_right_dropped(a, R, j, k) == a
\* while j < len(right_half): arr[k] = right_half[j]; j += 1; k += 1
RECURSIVE merge_right(_, _, _, _)
merge_right(a, R, j, k) ==
    IF j < Len(R) THEN merge_right(Set(a, k, Get(R, j)), R, j + 1, k + 1)
    ELSE a

\* while i < len(left_half): arr[k] = left_half[i]; i += 1; k += 1
\* and then the loop over right_half
RECURSIVE merge_left(_, _, _, _, _, _)
merge_left(a, L, R, i, j, k) ==
    IF i < Len(L) THEN merge_left(Set(a, k, Get(L, i)), L, R, i + 1, j, k + 1)
    ELSE merge_right(a, R, j, k)

\* while i < len(left_half) and j < len(right_half): take the smaller head
\* and then the two loops that copy what is left
RECURSIVE merge_loop(_, _, _, _, _, _)
merge_loop(a, L, R, i, j, k) ==
    IF i < Len(L) /\ j < Len(R)
    THEN IF Get(L, i) < Get(R, j)
         THEN merge_loop(Set(a, k, Get(L, i)), L, R, i + 1, j, k + 1)
         ELSE merge_loop(Set(a, k, Get(R, j)), L, R, i, j + 1, k + 1)
    ELSE merge_left(a, L, R, i, j, k)

RECURSIVE merge_sort(_)
merge_sort(a) ==
    IF Len(a) > 1
    THEN LET mid == Len(a) \div 2
             left_half == merge_sort(Slice(a, 0, mid))
             right_half == merge_sort(Slice(a, mid, Len(a)))
         IN  merge_loop(a, left_half, right_half, 0, 0, 0)
    ELSE a

-----------------------------------------------------------------------------
(* quick_sort of nd.py (lines 42-49): returns a new list, arr is untouched   *)

\* a mutation of middle: the pivot once
quick_middle_once(a, pivot) == <<pivot>>
\* middle = [x for x in arr if x == pivot]
quick_middle(a, pivot) == SelectSeq(a, LAMBDA x : x = pivot)

RECURSIVE quick_sort(_)
quick_sort(a) ==
    IF Len(a) <= 1 THEN a
    ELSE LET pivot == Get(a, Len(a) \div 2)
             left == SelectSeq(a, LAMBDA x : x < pivot)
             middle == quick_middle(a, pivot)
             right == SelectSeq(a, LAMBDA x : x > pivot)
         IN  quick_sort(left) \o middle \o quick_sort(right)

-----------------------------------------------------------------------------
(* The calls: measure_performance(sort_function, arr.copy()) *)

\* the sorting functions each script defines
SortFunctions ==
    [shree |-> {"bubble_sort", "merge_sort"},
     eye   |-> {"bubble_sort", "merge_sort"},
     nd    |-> {"bubble_sort", "merge_sort", "quick_sort"},
     night |-> {"bubble_sort", "merge_sort"}]

SortScripts == DOMAIN SortFunctions

SortIdle ==
    /\ sortScript = "none"
    /\ sort_function = "none"
    /\ data = <<>>
    /\ arr = <<>>
    /\ result = <<>>
    /\ sortPc = "idle"

SortInit ==
    /\ sortScript \in SortScripts
    /\ sort_function \in SortFunctions[sortScript]
    /\ data \in Lists
    /\ arr = data
    /\ result = <<>>
    /\ sortPc = "call"

\* shree.py: bubble_sort(arr) sorts nothing in place and returns None
CallShreeBubbleSort ==
    /\ sortPc = "call"
    /\ sortScript = "shree"
    /\ sort_function = "bubble_sort"
    /\ arr' = shree_bubble_sort(arr)
    /\ sortPc' = "returned"
    /\ UNCHANGED <<sortScript, sort_function, data, result>>
    /\ UNCHANGED exceptSort

\* eye.py, nd.py, night.py: bubble_sort(arr) sorts in place and returns None
CallBubbleSort ==
    /\ sortPc = "call"
    /\ sortScript \in {"eye", "nd", "night"}
    /\ sort_function = "bubble_sort"
    /\ arr' = bubble_sort(arr)
    /\ sortPc' = "returned"
    /\ UNCHANGED <<sortScript, sort_function, data, result>>
    /\ UNCHANGED exceptSort

\* every script: merge_sort(arr) sorts in place and returns None
CallMergeSort ==
    /\ sortPc = "call"
    /\ sort_function = "merge_sort"
    /\ arr' = merge_sort(arr)
    /\ sortPc' = "returned"
    /\ UNCHANGED <<sortScript, sort_function, data, result>>
    /\ UNCHANGED exceptSort

\* nd.py: quick_sort(arr) returns the sorted list and leaves arr alone
CallQuickSort ==
    /\ sortPc = "call"
    /\ sortScript = "nd"
    /\ sort_function = "quick_sort"
    /\ result' = <<quick_sort(arr)>>
    /\ sortPc' = "returned"
    /\ UNCHANGED <<sortScript, sort_function, data, arr>>
    /\ UNCHANGED exceptSort

SortNext ==
    \/ CallShreeBubbleSort
    \/ CallBubbleSort
    \/ CallMergeSort
    \/ CallQuickSort

-----------------------------------------------------------------------------
(* The console scripts: 4.py, analyiz.py, ml_procedural.py, eye.py, shree.py *)
(* The files that exist and what the user types are the environment.  A     *)
(* file that exists is a well-formed CSV with the columns the script reads. *)

\* the most main menu prompts of one run
MaxPrompts == 3

MenuScripts == {"4", "analyiz", "ml_procedural", "eye", "shree"}

\* data.csv in the working directory, data.csv at the script's hard-coded
\* full path, shree.csv in the working directory
Files == {"cwd/data.csv", "full/data.csv", "shree.csv"}

\* what a user may type at a main menu prompt
MenuEntries == {"1", "2", "3", "4", "5", "6", " 2", "abc", "x"}
\* ... at an algorithm prompt
AlgoEntries == {"1", "2", "3", "4", "abc"}
\* ... at a number-of-rows prompt
RowEntries == {"0", "5", "300", "-1", "abc", "x"}
\* ... at a y/n prompt
YesNoEntries == {"y", "Y", "n"}

\* int(s) raises ValueError unless s is an integer literal, which spaces
\* may surround
IntLiterals == {"0", "1", "2", "3", "4", "5", "6", "300"}
int_raises(s) == s \notin IntLiterals \cup {" 2", "-1"}
int(s) ==
    CASE s = "0" -> 0 [] s = "1" -> 1 [] s = "2" -> 2 [] s = "3" -> 3
      [] s = "4" -> 4 [] s = "5" -> 5 [] s = "6" -> 6 [] s = "300" -> 300
      [] s = " 2" -> 2 [] s = "-1" -> 0 - 1

\* str.lower()
lower(s) == IF s = "Y" THEN "y" ELSE s

MenuIdle ==
    /\ script = "none"
    /\ files = {}
    /\ pc = "idle"
    /\ df = "unset"
    /\ preprocessed = FALSE
    /\ split = FALSE
    /\ prompts = 0
    /\ choice = ""
    /\ ops = {}
    /\ out = {}
    /\ exc = "none"

\* a script is started as the main script in some directory
MenuInit ==
    /\ script \in MenuScripts
    /\ files \in SUBSET Files
    /\ pc = "start"
    /\ df = "unset"
    /\ preprocessed = FALSE
    /\ split = FALSE
    /\ prompts = 0
    /\ choice = ""
    /\ ops = {}
    /\ out = {}
    /\ exc = "none"

\* ---- the three ways a loop iteration ends ----

\* the iteration ran operations o, printed m and the menu is shown again
Again(c, o, m) ==
    /\ choice' = c
    /\ ops' = o
    /\ out' = m
    /\ pc' = "prompt"
    /\ prompts' = prompts + 1
    /\ exc' = exc

\* break: the loop and the script end
Break(c, m) ==
    /\ choice' = c
    /\ ops' = {}
    /\ out' = m
    /\ pc' = "done"
    /\ UNCHANGED <<prompts, exc>>

\* an exception nobody catches ends the script with a traceback
Raise(c, o, e) ==
    /\ choice' = c
    /\ ops' = o
    /\ out' = {}
    /\ pc' = "crashed"
    /\ exc' = e
    /\ UNCHANGED prompts

\* the loop is at its prompt and the run is within the model's bound
AtPrompt(s) ==
    /\ script = s
    /\ pc = "prompt"
    /\ prompts < MaxPrompts

\* the script goes from its start to the first menu prompt with data d
Enter(d, pre, m) ==
    /\ df' = d
    /\ preprocessed' = pre
    /\ split' = pre
    /\ out' = m
    /\ pc' = "prompt"
    /\ prompts' = 1
    /\ UNCHANGED <<choice, ops, exc>>

\* ---- loading ----

\* a mutation of the test below: menu() goes on with whatever was loaded
load_failed_ignored(d) == FALSE
\* if data is None: return
load_failed(d) == d = "None"

\* analyiz.py load_data(file_path): data.csv of the working directory
analyiz_load_data(fs) ==
    IF "cwd/data.csv" \in fs
    THEN [data |-> "DataFrame", out |-> {"File loaded successfully."}]
    ELSE [data |-> "None", out |-> {"Error: The file does not exist."}]

\* ml_procedural.py load_data(): data.csv of the working directory, else
\* the hard-coded full path
ml_load_data(fs) ==
    LET tried == IF "cwd/data.csv" \in fs THEN {}
                 ELSE {"File not found in current directory, trying full path..."}
        path == IF "cwd/data.csv" \in fs THEN "cwd/data.csv" ELSE "full/data.csv"
    IN  IF path \in fs
        THEN [data |-> "DataFrame", out |-> tried \cup {"File loaded successfully."}]
        ELSE [data |-> "None", out |-> tried \cup {"Error: The file does not exist."}]

\* menu() of analyiz.py and of ml_procedural.py up to the first prompt
MenuStart(s, loaded) ==
    /\ script = s
    /\ pc = "start"
    /\ IF load_failed(loaded.data)
       THEN /\ df' = loaded.data
            /\ out' = loaded.out
            /\ pc' = "done"
            /\ UNCHANGED <<preprocessed, split, prompts, choice, ops, exc>>
       ELSE Enter(loaded.data, TRUE, loaded.out)
    /\ UNCHANGED <<script, files>>
    /\ UNCHANGED exceptMenu

AnalyizStart == MenuStart("analyiz", analyiz_load_data(files))

MlStart == MenuStart("ml_procedural", ml_load_data(files))

\* eye.py: df = pd.read_csv('shree.csv') outside any try, then the loop
EyeStart ==
    /\ script = "eye"
    /\ pc = "start"
    /\ IF "shree.csv" \in files
       THEN Enter("DataFrame", FALSE, {})
       ELSE /\ pc' = "crashed"
            /\ exc' = "FileNotFoundError"
            /\ UNCHANGED <<df, preprocessed, split, prompts, choice, ops, out>>
    /\ UNCHANGED <<script, files>>
    /\ UNCHANGED exceptMenu

\* shree.py: menu() reads no file
ShreeStart ==
    /\ script = "shree"
    /\ pc = "start"
    /\ Enter(df, FALSE, {})
    /\ UNCHANGED <<script, files>>
    /\ UNCHANGED exceptMenu

\* 4.py, lines 13-151: the path, the try block that loads, preprocesses,
\* splits and defines the functions (menu among them, which nothing calls),
\* and the two except clauses
Py4Load ==
    /\ script = "4"
    /\ pc = "start"
    /\ LET tried == IF "cwd/data.csv" \in files THEN {}
                    ELSE {"File not found in current directory, trying full path..."}
           path == IF "cwd/data.csv" \in files THEN "cwd/data.csv"
                   ELSE "full/data.csv"
       IN  IF path \in files
           THEN /\ df' = "DataFrame"
                /\ preprocessed' = TRUE
                /\ split' = TRUE
                /\ out' = tried \cup {"File loaded successfully."}
           ELSE /\ out' = tried \cup {"Error: The file does not exist."}
                /\ UNCHANGED <<df, preprocessed, split>>
    /\ pc' = "sales_page"
    /\ UNCHANGED <<script, files, prompts, choice, ops, exc>>
    /\ UNCHANGED exceptMenu

\* 4.py, lines 155-222: the sales page; as the main script no name was
\* typed, so the page ends after its two text inputs
Py4SalesPage ==
    /\ script = "4"
    /\ pc = "sales_page"
    /\ ops' = {"sales_page"}
    /\ out' = {}
    /\ pc' = "done"
    /\ UNCHANGED <<script, files, df, preprocessed, split, prompts, choice, exc>>
    /\ UNCHANGED exceptMenu

\* ---- the menu loops ----

\* shree.py menu(), lines 54-68, one iteration; chart_menu asks y/n for
\* each of its three input types
ShreeMenu ==
    /\ AtPrompt("shree")
    /\ \E c \in MenuEntries :
        CASE c = "1" -> Again(c, {"run_analysis"}, {"table"})
          [] c = "2" ->
                \E answers \in [1..3 -> YesNoEntries] :
                    Again(c,
                          {"chart_menu"} \cup
                            IF \E t \in 1..3 : lower(answers[t]) = "y"
                            THEN {"show_chart_for_type"} ELSE {},
                          {})
          [] c = "3" -> Break(c, {})
          [] OTHER -> Again(c, {}, {"Invalid choice. Please try again."})
    /\ UNCHANGED <<script, files, df, preprocessed, split>>
    /\ UNCHANGED exceptMenu

\* eye.py lines 92-111, one iteration
EyeMenu ==
    /\ AtPrompt("eye")
    /\ \E c \in MenuEntries :
        CASE c \in {"1", "2", "3"} ->
                \E see_chart \in YesNoEntries :
                    Again(c,
                          {"run_sorting_analysis", "chart_prompt"} \cup
                            IF lower(see_chart) = "y"
                            THEN {"plot_comparison_chart"} ELSE {},
                          {"sorted data"})
          [] c = "4" -> Break(c, {})
          [] OTHER -> Again(c, {}, {"Invalid choice. Try again."})
    /\ UNCHANGED <<script, files, df, preprocessed, split>>
    /\ UNCHANGED exceptMenu

\* analyiz.py display_data, lines 23-25: int(input(...)) outside any try
analyiz_display_data(c, rows) ==
    IF int_raises(rows)
    THEN Raise(c, {"display_data"}, "ValueError")
    ELSE Again(c, {"display_data"}, {"rows"})

\* analyiz.py menu(), lines 186-231, one iteration; the entries are
\* compared as strings
AnalyizMenu ==
    /\ AtPrompt("analyiz")
    /\ \E c \in MenuEntries :
        CASE c = "1" -> \E rows \in RowEntries : analyiz_display_data(c, rows)
          [] c = "2" ->
                \E a \in AlgoEntries :
                    CASE a = "1" -> Again(c, {"choose_algorithm", "linear_regression"}, {"Linear Regression MSE"})
                      [] a = "2" -> Again(c, {"choose_algorithm", "knn"}, {"KNN Accuracy"})
                      [] a = "3" -> Again(c, {"choose_algorithm", "kmeans_clustering"}, {"K-Means Clustering Labels"})
                      [] OTHER -> Again(c, {"choose_algorithm"}, {"Invalid choice."})
          [] c = "3" ->
                \E a1, a2 \in AlgoEntries :
                    LET algo1 == IF a1 = "1" THEN "Linear Regression" ELSE "KNN"
                        algo2 == IF a2 = "1" THEN "Linear Regression" ELSE "KNN"
                    IN  Again(c, {"compare_two_algorithms"},
                              {IF algo = "Linear Regression"
                               THEN "Linear Regression MSE" ELSE "KNN Accuracy"
                               : algo \in {algo1, algo2}})
          [] c = "4" -> Again(c, {"compare_all_algorithms"}, {"Best Fit Algorithm"})
          [] c = "5" -> Break(c, {})
          [] OTHER -> Again(c, {}, {"Invalid choice."})
    /\ UNCHANGED <<script, files, df, preprocessed, split>>
    /\ UNCHANGED exceptMenu

\* ml_procedural.py display_data, lines 29-36: the ValueError is caught
ml_display_data(c, rows) ==
    IF int_raises(rows)
    THEN Again(c, {"display_data"}, {"Please enter a valid number."})
    ELSE Again(c, {"display_data"}, {"rows"})

\* ml_procedural.py compare_two_algorithms, lines 115-130: both entries are
\* parsed before anything runs, outside any try
ml_compare_two_algorithms(c, a1, a2) ==
    IF int_raises(a1) \/ int_raises(a2)
    THEN Raise(c, {"compare_two_algorithms"}, "ValueError")
    ELSE Again(c,
               {"compare_two_algorithms"} \cup
                 {IF int(a) = 1 THEN "linear_regression" ELSE "knn"
                  : a \in {b \in {a1, a2} : int(b) \in {1, 2}}},
               {IF int(a) = 1 THEN "Linear Regression MSE" ELSE "KNN Accuracy"
                : a \in {b \in {a1, a2} : int(b) \in {1, 2}}})

\* ml_procedural.py menu(), lines 160-193, one iteration; the entries are
\* parsed with int(input(...)) outside any try
MlMenu ==
    /\ AtPrompt("ml_procedural")
    /\ \E c \in MenuEntries :
        IF int_raises(c) THEN Raise(c, {}, "ValueError")
        ELSE CASE int(c) = 1 -> \E rows \in RowEntries : ml_display_data(c, rows)
               [] int(c) = 2 ->
                    \E a \in AlgoEntries :
                        IF int_raises(a)
                        THEN Raise(c, {"choose_algorithm"}, "ValueError")
                        ELSE CASE int(a) = 1 -> Again(c, {"choose_algorithm", "linear_regression"}, {"Linear Regression MSE"})
                               [] int(a) = 2 -> Again(c, {"choose_algorithm", "knn"}, {"KNN Accuracy"})
                               [] int(a) = 3 -> Again(c, {"choose_algorithm", "kmeans_regression"}, {"K-Means Clustering Labels"})
                               [] OTHER -> Again(c, {"choose_algorithm"}, {})
               [] int(c) = 3 ->
                    \E a1, a2 \in AlgoEntries : ml_compare_two_algorithms(c, a1, a2)
               [] int(c) = 4 ->
                    Again(c, {"compare_all_algorithms"},
                          {"Comparing all algorithms...", "Linear Regression MSE",
                           "KNN Accuracy", "K-Means Clustering Labels"})
               [] int(c) = 5 -> Break(c, {"Exiting program."})
               [] OTHER -> Again(c, {}, {"Invalid choice. Please try again."})
    /\ UNCHANGED <<script, files, df, preprocessed, split>>
    /\ UNCHANGED exceptMenu

MenuNext ==
    \/ Py4Load
    \/ Py4SalesPage
    \/ AnalyizStart
    \/ AnalyizMenu
    \/ MlStart
    \/ MlMenu
    \/ EyeStart
    \/ EyeMenu
    \/ ShreeStart
    \/ ShreeMenu

-----------------------------------------------------------------------------
(* game_key_logger.py: the main thread starts a pynput keyboard.Listener    *)
(* and blocks in listener.join(); the listener thread calls on_press and    *)
(* on_release, one event after the other, and stops when a callback         *)
(* returns False.  key_log.txt can be opened for appending.                 *)

\* the most key events of one run
MaxEvents == 3

\* a key is a KeyCode (with a char, which may be None) or a special Key
Esc == [kind |-> "special", name |-> "esc"]
Keys ==
    {[kind |-> "char", name |-> "a"], [kind |-> "char", name |-> "None"],
     Esc, [kind |-> "special", name |-> "shift"]}

Threads == {"main", "listener"}

\* try: key_data = key.char / except AttributeError: key_data = str(key)
key_data_of(key) ==
    IF key.kind = "char" THEN key.name ELSE "Key." \o key.name

\* a mutation of on_release: every release stops the logger
on_release_any(key) == "False"
\* on_release(key): False for ESC, None (no return) for every other key
on_release(key) == IF key = Esc THEN "False" ELSE "None"

\* a mutation of the end of the with block: the file stays open
with_exit_leak(n) == n
\* the end of "with open(LOG_FILE, "a") as f": f is closed
with_exit(n) == n - 1

KeyIdle ==
    /\ mainPc = "idle"
    /\ listening = FALSE
    /\ cb = "none"
    /\ key_data = ""
    /\ handles = [t \in Threads |-> 0]
    /\ key_log = <<>>
    /\ events = <<>>

KeyInit ==
    /\ mainPc = "start"
    /\ listening = FALSE
    /\ cb = "none"
    /\ key_data = ""
    /\ handles = [t \in Threads |-> 0]
    /\ key_log = <<>>
    /\ events = <<>>

\* lines 26-30: the banner, the listener thread is started, the main thread
\* waits in listener.join()
KeyStart ==
    /\ mainPc = "start"
    /\ mainPc' = "join"
    /\ listening' = TRUE
    /\ UNCHANGED <<cb, key_data, handles, key_log, events>>
    /\ UNCHANGED exceptKey

\* the listener thread is between two callbacks and takes the next event
ListenerReady ==
    /\ listening
    /\ cb = "none"
    /\ Len(events) < MaxEvents

\* on_press, lines 7-17: key_data, the log entry is printed, the file is
\* opened for appending
OnPressOpen ==
    /\ ListenerReady
    /\ \E key \in Keys :
        /\ events' = Append(events, <<"press", key>>)
        /\ key_data' = key_data_of(key)
    /\ handles' = [handles EXCEPT !["listener"] = @ + 1]
    /\ cb' = "opened"
    /\ UNCHANGED <<mainPc, listening, key_log>>
    /\ UNCHANGED exceptKey

\* on_press, line 18: f.write(log_entry + "\n")
OnPressWrite ==
    /\ cb = "opened"
    /\ key_log' = Append(key_log, key_data)
    /\ cb' = "written"
    /\ UNCHANGED <<mainPc, listening, key_data, handles, events>>
    /\ UNCHANGED exceptKey

\* on_press: the with block ends and on_press returns None
OnPressClose ==
    /\ cb = "written"
    /\ handles' = [handles EXCEPT !["listener"] = with_exit(@)]
    /\ cb' = "none"
    /\ UNCHANGED <<mainPc, listening, key_data, key_log, events>>
    /\ UNCHANGED exceptKey

\* on_release, lines 20-24, and the listener's reaction to what it returns
OnRelease ==
    /\ ListenerReady
    /\ \E key \in Keys :
        /\ events' = Append(events, <<"release", key>>)
        /\ listening' = (on_release(key) # "False")
    /\ UNCHANGED <<mainPc, cb, key_data, handles, key_log>>
    /\ UNCHANGED exceptKey

\* listener.join() returns once the listener thread has stopped; the with
\* block of line 29 ends and so does the script
JoinReturns ==
    /\ mainPc = "join"
    /\ ~listening
    /\ mainPc' = "exited"
    /\ UNCHANGED <<listening, cb, key_data, handles, key_log, events>>
    /\ UNCHANGED exceptKey

KeyNext ==
    \/ KeyStart
    \/ OnPressOpen
    \/ OnPressWrite
    \/ OnPressClose
    \/ OnRelease
    \/ JoinReturns

-----------------------------------------------------------------------------
(* The resume keyword extractor.  Only its test suites are in the           *)
(* repository; each method below is modelled from what it is documented to  *)
(* do, and is called on generic arguments and on the arguments of the       *)
(* tests.  Importance, frequency and confidence are counted in tenths or    *)
(* hundredths, a percentage is an exact fraction num / den.                 *)

\* the longest generic required_skills dict
MaxRequired == 2

\* one entry of a required_skills dict; the dict is the sequence of its
\* entries in insertion order
Req(n, imp, freq, alts) ==
    [name |-> n, importance |-> imp, frequency |-> freq, alternatives |-> alts]

\* sequences over S without a repeated name
DistinctSeqs(S, n) ==
    {q \in [1..n -> S] : \A i, j \in 1..n : i # j => q[i].name # q[j].name}

GenericReqEntries ==
    {Req(n, imp, freq, {}) :
        n \in {"Python", "JavaScript", "SQL"}, imp \in {7, 10}, freq \in {6, 8}}
    \cup {Req("SQL", imp, freq, {"MongoDB"}) : imp \in {7, 10}, freq \in {6, 8}}

GenericRequired ==
    UNION {DistinctSeqs(GenericReqEntries, n) : n \in 1..MaxRequired}

GenericCurrent == SUBSET {"Python", "JavaScript", "SQL", "MongoDB"}

\* ---- SkillGapAnalyzer._calculate_skill_match_percentage ----

\* test_calculate_skill_match_percentage: the dicts carry no frequency
MatchTest ==
    [current_skills |-> {"Python", "Git", "Communication"},
     required_skills |->
        <<Req("Python", 9, 0, {}), Req("JavaScript", 8, 0, {}),
          Req("Git", 7, 0, {}), Req("SQL", 6, 0, {"NoSQL"})>>]

\* test_calculate_skill_match_with_alternatives
MatchAlternativesTest ==
    [current_skills |-> {"MongoDB"},
     required_skills |-> <<Req("SQL", 10, 0, {"MongoDB", "NoSQL"})>>]

MatchArgs ==
    [current_skills : GenericCurrent, required_skills : GenericRequired]
    \cup {MatchTest, MatchAlternativesTest}

\* a mutation: an alternative earns the full importance
skill_credit_alternative_full(r, current) ==
    IF r.name \in current \/ r.alternatives \cap current # {}
    THEN 10 * r.importance ELSE 0
\* the credit of one required skill, in tenths of its importance: all of it
\* for the skill itself, 0.7 of it for an alternative, else nothing
skill_credit(r, current) ==
    IF r.name \in current THEN 10 * r.importance
    ELSE IF r.alternatives \cap current # {} THEN 7 * r.importance
    ELSE 0

\* the loop over the required skills: <<credit, total>> from entry i on
RECURSIVE match_totals(_, _, _)
match_totals(required, current, i) ==
    IF i > Len(required) THEN <<0, 0>>
    ELSE LET rest == match_totals(required, current, i + 1)
         IN  <<skill_credit(required[i], current) + rest[1],
               required[i].importance + rest[2]>>

\* 100 * credit / total as the fraction num / den
calculate_skill_match_percentage(current, required) ==
    LET t == match_totals(required, current, 1)
    IN  [num |-> 100 * t[1], den |-> 10 * t[2]]

CallSkillMatchPercentage ==
    /\ callPc = "call"
    /\ method = "_calculate_skill_match_percentage"
    /\ ret' = calculate_skill_match_percentage(args.current_skills,
                                               args.required_skills)
    /\ callPc' = "returned"
    /\ UNCHANGED <<method, args>>
    /\ UNCHANGED exceptCall

\* ---- SkillGapAnalyzer._identify_missing_skills ----

\* test_identify_missing_skills
MissingTest ==
    [current_skills |-> {"Python", "Git"},
     required_skills |->
        <<Req("Python", 9, 8, {}), Req("JavaScript", 8, 7, {}),
          Req("React", 7, 6, {})>>,
     target_role |-> "test_role"]

MissingArgs ==
    [current_skills : GenericCurrent, required_skills : GenericRequired,
     target_role : {"test_role"}]
    \cup {MissingTest}

\* SkillGap(missing_skill, importance, frequency_in_jobs, alternatives)
SkillGap(r) ==
    [missing_skill |-> r.name, importance |-> r.importance,
     frequency_in_jobs |-> r.frequency, alternatives |-> r.alternatives]

\* a mutation of the sort key: ascending
gap_sorts_before_ascending(g, h) ==
    g.importance + g.frequency_in_jobs < h.importance + h.frequency_in_jobs
\* the sort key: importance + frequency, the larger first
gap_sorts_before(g, h) ==
    g.importance + g.frequency_in_jobs > h.importance + h.frequency_in_jobs

\* a stable sort: g goes before the first gap it sorts before
RECURSIVE insert_gap(_, _)
insert_gap(sorted, g) ==
    IF sorted = <<>> THEN <<g>>
    ELSE IF gap_sorts_before(g, Head(sorted)) THEN <<g>> \o sorted
    ELSE <<Head(sorted)>> \o insert_gap(Tail(sorted), g)

RECURSIVE sort_gaps(_, _)
sort_gaps(gaps, n) ==
    IF n = 0 THEN <<>> ELSE insert_gap(sort_gaps(gaps, n - 1), gaps[n])

\* one SkillGap per required skill that is no current skill, sorted
identify_missing_skills(current, required, target_role) ==
    LET absent == SelectSeq(required, LAMBDA r : r.name \notin current)
        gaps == [i \in DOMAIN absent |-> SkillGap(absent[i])]
    IN  sort_gaps(gaps, Len(gaps))

CallIdentifyMissingSkills ==
    /\ callPc = "call"
    /\ method = "_identify_missing_skills"
    /\ ret' = identify_missing_skills(args.current_skills,
                                      args.required_skills, args.target_role)
    /\ callPc' = "returned"
    /\ UNCHANGED <<method, args>>
    /\ UNCHANGED exceptCall

\* ---- SkillGapAnalyzer.prioritize_recommendations ----

\* the longest generic list of recommendations
MaxRecs == 3

\* RecommendationPriority, the most urgent first
Priorities == <<"CRITICAL", "HIGH", "MEDIUM", "LOW">>
PriorityRank(p) == CHOOSE k \in DOMAIN Priorities : Priorities[k] = p

\* SkillRecommendation(skill, ..., priority, ...)
SkillRecommendation(s, p) == [skill |-> s, priority |-> p]

\* test_prioritize_recommendations
PrioritizeTest ==
    [recommendations |->
        <<SkillRecommendation("Low Priority Skill", "LOW"),
          SkillRecommendation("High Priority Skill", "CRITICAL"),
          SkillRecommendation("Medium Priority Skill", "MEDIUM")>>,
     max_recommendations |-> 2]

\* the skills of a generic list, in the order they are recommended
SkillNames == <<"Skill 1", "Skill 2", "Skill 3", "Skill 4">>

\* a generic list recommends the first n skills with any priorities
GenericRecommendations ==
    UNION {{[i \in 1..n |-> SkillRecommendation(SkillNames[i], ps[i])] :
               ps \in [1..n -> {Priorities[k] : k \in DOMAIN Priorities}]}
           : n \in 0..MaxRecs}

PrioritizeArgs ==
    [recommendations : GenericRecommendations,
     max_recommendations : 0..(MaxRecs + 1)]
    \cup {PrioritizeTest}

\* a stable sort on the priority: r goes before the first less urgent one
RECURSIVE insert_recommendation(_, _)
insert_recommendation(sorted, r) ==
    IF sorted = <<>> THEN <<r>>
    ELSE IF PriorityRank(r.priority) < PriorityRank(Head(sorted).priority)
    THEN <<r>> \o sorted
    ELSE <<Head(sorted)>> \o insert_recommendation(Tail(sorted), r)

RECURSIVE sort_recommendations(_, _)
sort_recommendations(recs, n) ==
    IF n = 0 THEN <<>>
    ELSE insert_recommendation(sort_recommendations(recs, n - 1), recs[n])

\* q[:n]
FirstN(q, n) == SubSeq(q, 1, IF n < Len(q) THEN n ELSE Len(q))

\* a mutation: the list is cut before it is sorted
prioritize_cut_first(recs, max_recommendations) ==
    LET cut == FirstN(recs, max_recommendations)
    IN  sort_recommendations(cut, Len(cut))
\* the recommendations sorted by priority, cut to max_recommendations
prioritize_recommendations(recs, max_recommendations) ==
    FirstN(sort_recommendations(recs, Len(recs)), max_recommendations)

CallPrioritizeRecommendations ==
    /\ callPc = "call"
    /\ method = "prioritize_recommendations"
    /\ ret' = prioritize_recommendations(args.recommendations,
                                         args.max_recommendations)
    /\ callPc' = "returned"
    /\ UNCHANGED <<method, args>>
    /\ UNCHANGED exceptCall

\* ---- SkillCategorizer._normalize_and_deduplicate ----

\* the longest generic list of skills
MaxSkills == 3

\* SkillMatch(skill, category, confidence, context, position); the
\* confidence is in hundredths
SkillMatch(s, c, p) == [skill |-> s, confidence |-> c, position |-> p]

\* _normalize_skill_name on the spellings of the tests: the rule of the
\* lower-cased spelling, or else the spelling capitalised
normalize_skill_name(s) ==
    CASE s \in {"Python", "python", "Python3", "python3"} -> "Python"
      [] s \in {"JavaScript", "javascript", "JS", "js"} -> "JavaScript"
      [] s \in {"React", "reactjs"} -> "React"

\* test_normalize_and_deduplicate
DeduplicateTest ==
    <<SkillMatch("Python", 90, 0), SkillMatch("python", 80, 10),
      SkillMatch("Python3", 85, 20), SkillMatch("JavaScript", 90, 30),
      SkillMatch("js", 70, 40), SkillMatch("React", 80, 50),
      SkillMatch("reactjs", 75, 60)>>

GenericSpellings == {"Python", "python", "Python3", "JavaScript", "js", "React"}

\* a generic list: any spellings, any of two confidences, at positions
\* 0, 10, 20, ...
GenericSkills ==
    UNION {{[i \in 1..n |-> SkillMatch(q[i][1], q[i][2], 10 * (i - 1))] :
               q \in [1..n -> GenericSpellings \X {70, 90}]}
           : n \in 0..MaxSkills}

DeduplicateArgs == GenericSkills \cup {DeduplicateTest}

\* the index of the kept skill of that name, 0 when there is none
KeptAt(kept, normalized) ==
    IF \E k \in 1..Len(kept) : kept[k].skill = normalized
    THEN CHOOSE k \in 1..Len(kept) : kept[k].skill = normalized
    ELSE 0

\* a mutation: the later occurrence always replaces the kept one
replaces_always(candidate, existing) == TRUE
\* the candidate replaces the kept occurrence when it is more confident
replaces(candidate, existing) == candidate.confidence > existing.confidence

\* one pass over the skills: each is normalized, its spelling recorded in
\* the mapping, and it is kept when its name is new or it beats the kept one
RECURSIVE deduplicate_loop(_, _, _, _, _)
deduplicate_loop(skills, i, mapping, kept, duplicates) ==
    IF i > Len(skills)
    THEN [normalized_mapping |-> mapping, deduplicated |-> kept,
          duplicates_count |-> duplicates]
    ELSE LET s == skills[i]
             normalized == normalize_skill_name(s.skill)
             renamed == [s EXCEPT !.skill = normalized]
             k == KeptAt(kept, normalized)
             mapping1 == [o \in DOMAIN mapping \cup {s.skill} |->
                             IF o = s.skill THEN normalized ELSE mapping[o]]
         IN  IF k = 0
             THEN deduplicate_loop(skills, i + 1, mapping1,
                                   Append(kept, renamed), duplicates)
             ELSE deduplicate_loop(skills, i + 1, mapping1,
                      IF replaces(s, kept[k])
                      THEN [kept EXCEPT ![k] = renamed] ELSE kept,
                      duplicates + 1)

normalize_and_deduplicate(skills) ==
    deduplicate_loop(skills, 1, [o \in {} |-> ""], <<>>, 0)

CallNormalizeAndDeduplicate ==
    /\ callPc = "call"
    /\ method = "_normalize_and_deduplicate"
    /\ ret' = normalize_and_deduplicate(args)
    /\ callPc' = "returned"
    /\ UNCHANGED <<method, args>>
    /\ UNCHANGED exceptCall

\* ---- ResumePDFProcessor ----

\* the most pages of a generic PDF
MaxPages == 2

\* the mocked PyPDF2.PdfReader: decrypt returns decrypt_return for every
\* password, and page k's extract_text returns pages[k]
PdfReader(enc, dec, meta, pgs) ==
    [is_encrypted |-> enc, decrypt_return |-> dec, metadata |-> meta,
     pages |-> pgs]

\* reader.metadata: any part of the dict of test_analyze_pdf_text_based
TestMetadata ==
    [k \in {"/Title", "/Author", "/Creator"} |->
        CASE k = "/Title" -> "Test Resume"
          [] k = "/Author" -> "John Doe"
          [] k = "/Creator" -> "Test Creator"]
Metadatas == {[k \in D |-> TestMetadata[k]] : D \in SUBSET DOMAIN TestMetadata}

\* what extract_text returns in the tests
PageTexts ==
    {"Page 1: Resume content", "Page 2: More content", "Decrypted content"}
PagesOver(T) == UNION {[1..n -> T] : n \in 0..MaxPages}

\* the password argument: None is <<>>
Passwords == {<<>>, <<"correct">>, <<"wrong">>}

ExtractArgs ==
    {[reader |-> PdfReader(enc, dec, TestMetadata, pgs), password |-> pw] :
        enc \in BOOLEAN, dec \in BOOLEAN, pgs \in PagesOver(PageTexts),
        pw \in Passwords}

\* "\n\n".join(page_texts), the text as the list of its pieces
RECURSIVE join(_, _)
join(sep, texts) ==
    IF Len(texts) <= 1 THEN texts
    ELSE <<Head(texts), sep>> \o join(sep, Tail(texts))

\* a mutation: the answer of decrypt is not looked at
decrypt_rejected_ignored(reader, password) == FALSE
\* reader.decrypt(password) is falsy
decrypt_rejected(reader, password) == ~reader.decrypt_return

ValueError(msg, calls) ==
    [raised |-> "ValueError", message |-> msg, decrypt_calls |-> calls]

PDFExtractionResult(reader, calls) ==
    [raised |-> "none",
     text |-> join("\n\n", reader.pages),
     page_texts |-> reader.pages,
     extraction_method |-> "PYPDF2",
     decrypt_calls |-> calls]

extract_with_pypdf2(reader, password) ==
    IF reader.is_encrypted
    THEN IF password = <<>>
         THEN ValueError("PDF is encrypted", <<>>)
         ELSE IF decrypt_rejected(reader, password[1])
         THEN ValueError("Invalid password", <<password[1]>>)
         ELSE PDFExtractionResult(reader, <<password[1]>>)
    ELSE PDFExtractionResult(reader, <<>>)

CallExtractWithPypdf2 ==
    /\ callPc = "call"
    /\ method = "_extract_with_pypdf2"
    /\ ret' = extract_with_pypdf2(args.reader, args.password)
    /\ callPc' = "returned"
    /\ UNCHANGED <<method, args>>
    /\ UNCHANGED exceptCall

\* PDFType, as far as _analyze_pdf gives it
PDFTypes == {"TEXT_BASED", "IMAGE_BASED", "ENCRYPTED"}

AnalyzePageTexts == {"", "Sample resume text content"}

AnalyzeArgs ==
    {PdfReader(enc, TRUE, meta, pgs) :
        enc \in BOOLEAN, meta \in Metadatas,
        pgs \in PagesOver(AnalyzePageTexts)}

\* dict.get: <<>> is None
get(dict, key) == IF key \in DOMAIN dict THEN <<dict[key]>> ELSE <<>>

\* a mutation: a PDF with a page counts as one with text
pages_yield_text_any(pages) == pages # <<>>
\* some page's extract_text is not empty
pages_yield_text(pages) == \E k \in 1..Len(pages) : pages[k] # ""

PDFMetadata(title, author, enc, n) ==
    [title |-> title, author |-> author, is_encrypted |-> enc,
     page_count |-> n]

analyze_pdf(reader) ==
    IF reader.is_encrypted
    THEN [pdf_type |-> "ENCRYPTED",
          metadata |-> PDFMetadata(<<>>, <<>>, TRUE, 0)]
    ELSE [pdf_type |-> IF pages_yield_text(reader.pages)
                       THEN "TEXT_BASED" ELSE "IMAGE_BASED",
          metadata |-> PDFMetadata(get(reader.metadata, "/Title"),
                                   get(reader.metadata, "/Author"),
                                   FALSE, Len(reader.pages))]

CallAnalyzePdf ==
    /\ callPc = "call"
    /\ method = "_analyze_pdf"
    /\ ret' = analyze_pdf(args)
    /\ callPc' = "returned"
    /\ UNCHANGED <<method, args>>
    /\ UNCHANGED exceptCall

\* ---- the calls ----

CallIdle ==
    /\ method = "none"
    /\ args = <<>>
    /\ ret = <<>>
    /\ callPc = "idle"

CallInit ==
    /\ \/ method = "_calculate_skill_match_percentage" /\ args \in MatchArgs
       \/ method = "_identify_missing_skills" /\ args \in MissingArgs
       \/ method = "prioritize_recommendations" /\ args \in PrioritizeArgs
       \/ method = "_normalize_and_deduplicate" /\ args \in DeduplicateArgs
       \/ method = "_extract_with_pypdf2" /\ args \in ExtractArgs
       \/ method = "_analyze_pdf" /\ args \in AnalyzeArgs
    /\ ret = <<>>
    /\ callPc = "call"

CallNext ==
    \/ CallSkillMatchPercentage
    \/ CallIdentifyMissingSkills
    \/ CallPrioritizeRecommendations
    \/ CallNormalizeAndDeduplicate
    \/ CallExtractWithPypdf2
    \/ CallAnalyzePdf

-----------------------------------------------------------------------------
(* The sales incentive calculator of 4.py, lines 155-222, run by streamlit *)

\* how far from each slab edge the generic entries go, in hundredths of a
\* lakh and in rupees
MaxDelta == 1

\* ---- floats, as exact fractions in lowest terms ----

Abs(n) == IF n < 0 THEN 0 - n ELSE n

RECURSIVE GCD(_, _)
GCD(a, b) == IF b = 0 THEN Abs(a) ELSE GCD(b, a % b)

Frac(n, d) == LET g == GCD(Abs(n), d) IN [num |-> n \div g, den |-> d \div g]

Floor(x) == x.num \div x.den

\* x * y, cancelling before multiplying
FracMul(x, y) ==
    LET g1 == GCD(Abs(x.num), y.den)
        g2 == GCD(Abs(y.num), x.den)
    IN  [num |-> (x.num \div g1) * (y.num \div g2),
         den |-> (x.den \div g2) * (y.den \div g1)]

\* x <= y, comparing the whole parts and then the fractional parts
FracLe(x, y) ==
    LET g == GCD(x.den, y.den)
    IN  \/ Floor(x) < Floor(y)
        \/ /\ Floor(x) = Floor(y)
           /\ (x.num % x.den) * (y.den \div g)
                  <= (y.num % y.den) * (x.den \div g)

\* ---- the inputs ----

Names == {"", "Asha"}
UserIds == {"", "E7"}

\* the edges of the slabs and of the unit detection, in lakh
Edges == {0, 5, 10, 15, 999, 1000}

\* a text that float() accepts is modelled with the number it denotes
NumberText(x) == [text |-> "number", value |-> x]

\* entries within MaxDelta hundredths of an edge, entries within MaxDelta
\* rupees of an edge given in rupees, and the two examples of the prompt
SalesInputs ==
    {[text |-> ""], [text |-> "abc"]}
    \cup {NumberText(Frac(100 * e + d, 100)) :
             e \in Edges, d \in (0 - MaxDelta)..MaxDelta}
    \cup {NumberText(Frac(100000 * e + d, 1)) :
             e \in Edges \ {0}, d \in (0 - MaxDelta)..MaxDelta}
    \cup {NumberText(Frac(105, 10)), NumberText(Frac(1250000, 1))}

float_raises(t) == t.text # "number"
float(t) == t.value

\* ---- lines 162-167 ----

bonus_slabs ==
    <<[min |-> 0, max |-> 5, bonus |-> 0],
      [min |-> 5, max |-> 10, bonus |-> 10],
      [min |-> 10, max |-> 15, bonus |-> 12],
      [min |-> 15, max |-> 999, bonus |-> 15]>>

\* ---- lines 186-204 ----

\* a mutation: 1000 itself is taken as rupees
is_rupees_from_threshold(raw) == raw.num >= 1000 * raw.den
\* raw_sales > 1000
is_rupees(raw) == raw.num > 1000 * raw.den

to_lakh(raw) ==
    IF is_rupees(raw) THEN Frac(raw.num, raw.den * 100000) ELSE raw

\* a mutation: the upper bound of a slab is inclusive
slab_matches_inclusive(slab, x) ==
    /\ slab.min <= Floor(x)
    /\ Floor(x) < slab.max \/ x = Frac(slab.max, 1)
\* slab["min"] <= sales_lakh < slab["max"]; the bounds are whole numbers
slab_matches(slab, x) == slab.min <= Floor(x) /\ Floor(x) < slab.max

\* the loop of lines 198-202 from slab k on: the first slab that matches
RECURSIVE match_slab(_, _)
match_slab(x, k) ==
    IF k > Len(bonus_slabs) THEN 0
    ELSE IF slab_matches(bonus_slabs[k], x) THEN bonus_slabs[k].bonus
    ELSE match_slab(x, k + 1)

\* (matched_bonus / 100) * sales_lakh * 100000
bonus_of(rate, lakh) ==
    FracMul(FracMul(Frac(rate, 100), lakh), Frac(100000, 1))

\* ---- the run ----

SalesUnset ==
    /\ sales_input = [text |-> ""]
    /\ raw_sales = <<>>
    /\ sales_lakh = <<>>
    /\ matched_bonus = <<>>
    /\ bonus_amount = <<>>
    /\ shown = {}

SalesIdle ==
    /\ salesPc = "idle"
    /\ name = ""
    /\ user_id = ""
    /\ previous = <<>>
    /\ SalesUnset

SalesInit ==
    /\ salesPc = "details"
    /\ name = ""
    /\ user_id = ""
    /\ previous = <<>>
    /\ SalesUnset

\* lines 170-181: the two text inputs, the generated id, the welcome
SalesDetails ==
    /\ salesPc = "details"
    /\ \E n \in Names, u \in UserIds :
        LET id == IF n # "" /\ u = "" THEN "generated" ELSE u
        IN  /\ name' = n
            /\ user_id' = id
            /\ IF n # "" /\ id # ""
               THEN shown' = {"Welcome"} /\ salesPc' = "entry"
               ELSE shown' = {} /\ salesPc' = "done"
    /\ UNCHANGED <<sales_input, raw_sales, sales_lakh, matched_bonus,
                   bonus_amount, previous>>
    /\ UNCHANGED exceptSales

\* lines 183-186: the sales input; an empty one ends the run
SalesEntry ==
    /\ salesPc = "entry"
    /\ \E t \in SalesInputs :
        /\ sales_input' = t
        /\ salesPc' = IF t.text = "" THEN "done" ELSE "convert"
    /\ UNCHANGED <<name, user_id, raw_sales, sales_lakh, matched_bonus,
                   bonus_amount, shown, previous>>
    /\ UNCHANGED exceptSales

\* lines 187-195 and 221-222: float() and the unit detection
SalesConvert ==
    /\ salesPc = "convert"
    /\ IF float_raises(sales_input)
       THEN /\ shown' = shown \cup {"Please enter a valid number."}
            /\ salesPc' = "done"
            /\ UNCHANGED <<raw_sales, sales_lakh>>
       ELSE LET raw == float(sales_input)
            IN  /\ raw_sales' = <<raw>>
                /\ sales_lakh' = <<to_lakh(raw)>>
                /\ shown' = IF is_rupees(raw)
                            THEN shown \cup {"Detected input as rupees"}
                            ELSE shown
                /\ salesPc' = "match"
    /\ UNCHANGED <<name, user_id, sales_input, matched_bonus, bonus_amount,
                   previous>>
    /\ UNCHANGED exceptSales

\* lines 197-202: the slab loop
SalesMatch ==
    /\ salesPc = "match"
    /\ matched_bonus' = <<match_slab(sales_lakh[1], 1)>>
    /\ salesPc' = "display"
    /\ UNCHANGED <<name, user_id, sales_input, raw_sales, sales_lakh,
                   bonus_amount, shown, previous>>
    /\ UNCHANGED exceptSales

\* lines 204-219: the bonus and the result
SalesDisplay ==
    /\ salesPc = "display"
    /\ bonus_amount' = <<bonus_of(matched_bonus[1], sales_lakh[1])>>
    /\ shown' = shown \cup {"Your sales"}
                  \cup (IF matched_bonus[1] > 0
                        THEN {"Bonus Summary"}
                        ELSE {"No bonus applicable for this sales amount."})
    /\ salesPc' = "done"
    /\ UNCHANGED <<name, user_id, sales_input, raw_sales, sales_lakh,
                   matched_bonus, previous>>
    /\ UNCHANGED exceptSales

\* streamlit runs the script again when an input changes; previous keeps
\* the sales and the rate of the run that ends, when it matched a rate
SalesRerun ==
    /\ salesPc = "done"
    /\ previous' = IF matched_bonus # <<>>
                   THEN <<[sales_lakh |-> sales_lakh[1],
                           matched_bonus |-> matched_bonus[1]]>>
                   ELSE previous
    /\ salesPc' = "details"
    /\ sales_input' = [text |-> ""]
    /\ raw_sales' = <<>>
    /\ sales_lakh' = <<>>
    /\ matched_bonus' = <<>>
    /\ bonus_amount' = <<>>
    /\ shown' = {}
    /\ UNCHANGED <<name, user_id>>
    /\ UNCHANGED exceptSales

SalesNext ==
    \/ SalesDetails
    \/ SalesEntry
    \/ SalesConvert
    \/ SalesMatch
    \/ SalesDisplay
    \/ SalesRerun

-----------------------------------------------------------------------------
(* image_ocr_app.py, run by streamlit *)

\* lines 72-73
max_width == 800
max_height == 600

\* the widths and heights of the uploads: small, at and around the display
\* bounds, and up to MaxScale times the bounds and beyond
MaxScale == 2

Widths ==
    {1, 400, max_width - 1, max_width, max_width + 1}
    \cup {k * max_width : k \in 2..MaxScale} \cup {5000}
Heights ==
    {1, 300, max_height - 1, max_height, max_height + 1}
    \cup {k * max_height : k \in 2..MaxScale} \cup {5000}

\* what line 65 gives for names such as a.png, a.JPG, a.jpeg, a.gif, a
Extensions == {"png", "jpg", "jpeg", "gif", ""}

UploadedFile(ext, w, h) == [file_extension |-> ext, size |-> <<w, h>>]

Uploads ==
    {<<>>} \cup {<<UploadedFile(e, w, h)>> :
                    e \in Extensions, w \in Widths, h \in Heights}

\* lines 76-87; int(max_width / aspect_ratio) is max_width * img_height
\* over img_width with the fraction dropped, int(max_height * aspect_ratio)
\* is max_height * img_width over img_height with the fraction dropped
resize(img_width, img_height) ==
    IF img_width > max_width
    THEN <<max_width, (max_width * img_height) \div img_width>>
    ELSE IF img_height > max_height
    THEN <<(max_height * img_width) \div img_height, max_height>>
    ELSE <<img_width, img_height>>

\* what the OCR reads: the numbers of words around the tests of lines
\* 110, 116 and 122
TextWords == {0, 5, 6, 30, 31}

OcrUnset ==
    /\ summarizer = "unset"
    /\ image_file = <<>>
    /\ new_width = 0
    /\ new_height = 0
    /\ tmp_files = {}
    /\ extracted_text = <<>>
    /\ summarizer_calls = 0
    /\ ocrOut = {}

OcrIdle == ocrPc = "idle" /\ OcrUnset

OcrInit == ocrPc = "load" /\ OcrUnset

\* lines 161-163: the handler of every exception raised after line 59;
\* it shows two messages and removes nothing
OcrExcept ==
    /\ ocrPc' = "done"
    /\ ocrOut' = ocrOut \cup {"Error processing image"}

\* lines 20-53: load_model_with_fallback returns the pipeline, or None
\* after a warning when loading raised
OcrLoadModels ==
    /\ ocrPc = "load"
    /\ \/ summarizer' = "pipeline" /\ ocrOut' = {"Models loaded successfully"}
       \/ /\ summarizer' = "None"
          /\ ocrOut' = {"Failed to load summarization",
                        "Models loaded successfully"}
    /\ ocrPc' = "upload"
    /\ UNCHANGED <<image_file, new_width, new_height, tmp_files,
                   extracted_text, summarizer_calls>>
    /\ UNCHANGED exceptOcr

\* lines 56-68: the upload and the check of its extension
OcrUpload ==
    /\ ocrPc = "upload"
    /\ \E f \in Uploads :
        /\ image_file' = f
        /\ IF f = <<>>
           THEN ocrPc' = "done" /\ ocrOut' = ocrOut
           ELSE IF f[1].file_extension \notin {"jpg", "jpeg", "png"}
           THEN /\ ocrPc' = "done"
                /\ ocrOut' = ocrOut \cup {"Please upload a valid image file"}
           ELSE ocrPc' = "open" /\ ocrOut' = ocrOut
    /\ UNCHANGED <<summarizer, new_width, new_height, tmp_files,
                   extracted_text, summarizer_calls>>
    /\ UNCHANGED exceptOcr

\* lines 70-90: the display size and image.resize, which some versions of
\* Pillow refuse with a ValueError when a side is 0
OcrResize ==
    /\ ocrPc = "open"
    /\ LET new == resize(image_file[1].size[1], image_file[1].size[2])
       IN  /\ new_width' = new[1]
           /\ new_height' = new[2]
           /\ \/ ocrPc' = "display" /\ ocrOut' = ocrOut
              \/ (new[1] = 0 \/ new[2] = 0) /\ OcrExcept
    /\ UNCHANGED <<summarizer, image_file, tmp_files, extracted_text,
                   summarizer_calls>>
    /\ UNCHANGED exceptOcr

\* lines 92-94: st.image(image_resized) and the button, pressed or not
OcrDisplay ==
    /\ ocrPc = "display"
    /\ ocrOut' = ocrOut \cup {"Uploaded Image"}
    /\ ocrPc' \in {"pressed", "done"}
    /\ UNCHANGED <<summarizer, image_file, new_width, new_height, tmp_files,
                   extracted_text, summarizer_calls>>
    /\ UNCHANGED exceptOcr

\* lines 96-104: the temporary file is created with delete=False, and
\* image.convert or image.save may raise
OcrSave ==
    /\ ocrPc = "pressed"
    /\ tmp_files' = tmp_files \cup {"img_path"}
    /\ \/ ocrPc' = "ocr" /\ ocrOut' = ocrOut
       \/ OcrExcept
    /\ UNCHANGED <<summarizer, image_file, new_width, new_height,
                   extracted_text, summarizer_calls>>
    /\ UNCHANGED exceptOcr

\* os.unlink(img_path)
unlink(existing, path) == existing \ {path}

\* lines 106-113: reader.readtext may raise; without text the file is
\* removed and the run stops
OcrReadText ==
    /\ ocrPc = "ocr"
    /\ \/ \E words \in TextWords :
            /\ extracted_text' = <<words>>
            /\ IF words = 0
               THEN /\ ocrOut' = ocrOut
                                   \cup {"No text was detected in the image."}
                    /\ tmp_files' = unlink(tmp_files, "img_path")
                    /\ ocrPc' = "done"
               ELSE /\ ocrOut' = ocrOut
                    /\ tmp_files' = tmp_files
                    /\ ocrPc' = "summarize"
       \/ OcrExcept /\ UNCHANGED <<extracted_text, tmp_files>>
    /\ UNCHANGED <<summarizer, image_file, new_width, new_height,
                   summarizer_calls>>
    /\ UNCHANGED exceptOcr

\* len(extracted_text.split()) > 30
enough_to_summarize(words) == words > 30

\* lines 115-119: summarizer(...) for a text of more than 30 words; calling
\* None raises TypeError, and the pipeline may raise
OcrSummarize ==
    /\ ocrPc = "summarize"
    /\ IF enough_to_summarize(extracted_text[1])
       THEN /\ summarizer_calls' = summarizer_calls + 1
            /\ \/ /\ summarizer = "pipeline"
                  /\ ocrPc' = "keywords"
                  /\ ocrOut' = ocrOut
               \/ OcrExcept
       ELSE /\ summarizer_calls' = summarizer_calls
            /\ ocrPc' = "keywords"
            /\ ocrOut' = ocrOut
    /\ UNCHANGED <<summarizer, image_file, new_width, new_height, tmp_files,
                   extracted_text>>
    /\ UNCHANGED exceptOcr

\* lines 121-129: the keywords of a text of more than 5 words; the
\* vectorizer may raise
OcrKeywords ==
    /\ ocrPc = "keywords"
    /\ \/ ocrPc' = "results" /\ ocrOut' = ocrOut
       \/ extracted_text[1] > 5 /\ OcrExcept
    /\ UNCHANGED <<summarizer, image_file, new_width, new_height, tmp_files,
                   extracted_text, summarizer_calls>>
    /\ UNCHANGED exceptOcr

\* lines 131-159: the results, the word cloud of the keywords (which may
\* raise), the download link and the removal of the temporary file
OcrResults ==
    /\ ocrPc = "results"
    /\ \/ /\ ocrOut' = ocrOut \cup {"Extracted Text", "Summary"}
                         \cup (IF extracted_text[1] > 5
                               THEN {"Extracted Keywords", "Word Cloud"}
                               ELSE {})
          /\ tmp_files' = unlink(tmp_files, "img_path")
          /\ ocrPc' = "done"
       \/ /\ extracted_text[1] > 5
          /\ OcrExcept
          /\ tmp_files' = tmp_files
    /\ UNCHANGED <<summarizer, image_file, new_width, new_height,
                   extracted_text, summarizer_calls>>
    /\ UNCHANGED exceptOcr

OcrNext ==
    \/ OcrLoadModels
    \/ OcrUpload
    \/ OcrResize
    \/ OcrDisplay
    \/ OcrSave
    \/ OcrReadText
    \/ OcrSummarize
    \/ OcrKeywords
    \/ OcrResults

-----------------------------------------------------------------------------
(* Functions of the console scripts, called on their own *)

\* ---- ml_procedural.py display_data, lines 29-36 ----

\* how many rows the data may have
DataSizes == {0, 3, 200, 201, 202, 1000}

\* the row cap of lines 32-33
row_cap == 200

DisplayArgs == [rows : DataSizes, entry : RowEntries \cup {" 2"}]

\* len(data.head(n)): the first n rows, or for a negative n all rows but
\* the last -n
head(rows, n) ==
    IF n >= 0 THEN (IF n < rows THEN n ELSE rows)
    ELSE (IF rows + n > 0 THEN rows + n ELSE 0)

\* what display_data prints for the entry typed at its prompt
display_data(rows, entry) ==
    IF int_raises(entry)
    THEN [printed_rows |-> 0, out |-> {"Please enter a valid number."}]
    ELSE LET num_rows == IF int(entry) > row_cap THEN row_cap ELSE int(entry)
         IN  [printed_rows |-> head(rows, num_rows), out |-> {"rows"}]

CallDisplayData ==
    /\ callPc = "call"
    /\ method = "display_data"
    /\ ret' = display_data(args.rows, args.entry)
    /\ callPc' = "returned"
    /\ UNCHANGED <<method, args>>
    /\ UNCHANGED exceptCall

\* ---- analyiz.py compare_all_algorithms, lines 120-158 ----

\* the scores in hundredths: a mean squared error is any float from 0 up,
\* an accuracy is a float from 0 to 1
MseScores == {0, 50, 100, 250000}
AccuracyScores == {0, 50, 100}

CompareArgs == [mse : MseScores, accuracy : AccuracyScores]

Float(v) == [type |-> "float", value |-> v]
Str(v) == [type |-> "str", value |-> v]

\* lines 122-140: the dict results, in insertion order
results_of(mse, accuracy) ==
    <<[algo |-> "Linear Regression", result |-> Float(mse)],
      [algo |-> "KNN", result |-> Float(accuracy)],
      [algo |-> "K-Means Clustering",
       result |-> Str("Labels generated, check console")]>>

\* isinstance(result, float)
is_float(r) == r.type = "float"

\* a mutation: max in place of min
replaces_best_larger(candidate, best) == candidate.value > best.value
\* min keeps the first of the smallest: a later one replaces it only when
\* it is smaller
replaces_best(candidate, best) == candidate.value < best.value

\* min(..., key=results.get) over the entries from k on, best so far b
RECURSIVE min_by_result(_, _, _)
min_by_result(entries, k, b) ==
    IF k > Len(entries) THEN b
    ELSE min_by_result(entries, k + 1,
             IF replaces_best(entries[k].result, b.result)
             THEN entries[k] ELSE b)

\* lines 147-155: the best fit and the heights of the bars
compare_all_algorithms(mse, accuracy) ==
    LET results == results_of(mse, accuracy)
        floats == SelectSeq(results, LAMBDA e : is_float(e.result))
        best == min_by_result(floats, 2, floats[1])
    IN  [best_fit_algo |-> best.algo,
         best_fit_value |-> best.result.value,
         bars |-> [k \in 1..Len(results) |->
                      [algo |-> results[k].algo,
                       height |-> IF is_float(results[k].result)
                                  THEN results[k].result.value ELSE 0]]]

CallCompareAllAlgorithms ==
    /\ callPc = "call"
    /\ method = "compare_all_algorithms"
    /\ ret' = compare_all_algorithms(args.mse, args.accuracy)
    /\ callPc' = "returned"
    /\ UNCHANGED <<method, args>>
    /\ UNCHANGED exceptCall

\* ---- eye.py run_sorting_analysis, lines 49-63, for one dataset type ----

\* the list objects of the run are a heap; a name holds the index of its
\* object.  A mutation of data.copy(): the name is bound to data itself
list_copy_alias(heap, obj) == obj
\* data.copy() is a new object, put at the end of the heap
list_copy(heap, obj) == Len(heap) + 1

\* the heap once the copy was made
after_copy(heap, obj) == Append(heap, heap[obj])

\* measure_performance(sort_function, arr), lines 42-47: the function
\* sorts the object in place
measure_performance(heap, fn, obj) ==
    [heap EXCEPT ![obj] = IF fn = "bubble_sort"
                          THEN bubble_sort(heap[obj])
                          ELSE merge_sort(heap[obj])]

run_sorting_analysis(list) ==
    LET h0 == <<list>>
        data_obj == 1
        bubble_sorted == list_copy(h0, data_obj)
        h1 == measure_performance(after_copy(h0, data_obj),
                                  "bubble_sort", bubble_sorted)
        merge_sorted == list_copy(h1, data_obj)
        h2 == measure_performance(after_copy(h1, data_obj),
                                  "merge_sort", merge_sorted)
    IN  [data |-> h2[data_obj],
         bubble_sorted |-> h2[bubble_sorted],
         merge_sorted |-> h2[merge_sorted]]

CallRunSortingAnalysis ==
    /\ callPc = "call"
    /\ method = "run_sorting_analysis"
    /\ ret' = run_sorting_analysis(args)
    /\ callPc' = "returned"
    /\ UNCHANGED <<method, args>>
    /\ UNCHANGED exceptCall

\* ---- the calls ----

FunctionInit ==
    /\ \/ method = "display_data" /\ args \in DisplayArgs
       \/ method = "compare_all_algorithms" /\ args \in CompareArgs
       \/ method = "run_sorting_analysis" /\ args \in Lists
    /\ ret = <<>>
    /\ callPc = "call"

FunctionNext ==
    \/ CallDisplayData
    \/ CallCompareAllAlgorithms
    \/ CallRunSortingAnalysis

-----------------------------------------------------------------------------
(* The specifications *)

\* one call of a sorting function; no console script runs
InitSort ==
    SortInit /\ MenuIdle /\ KeyIdle /\ CallIdle /\ SalesIdle /\ OcrIdle

SpecSort == InitSort /\ [][SortNext]_vars

\* one run of a console script; no sort is measured on its own
InitMenu ==
    MenuInit /\ SortIdle /\ KeyIdle /\ CallIdle /\ SalesIdle /\ OcrIdle

SpecMenu == InitMenu /\ [][MenuNext]_vars

\* one run of game_key_logger.py
InitKey ==
    KeyInit /\ SortIdle /\ MenuIdle /\ CallIdle /\ SalesIdle /\ OcrIdle

SpecKey == InitKey /\ [][KeyNext]_vars

\* one call of a method of the resume keyword extractor
InitResume ==
    CallInit /\ SortIdle /\ MenuIdle /\ KeyIdle /\ SalesIdle /\ OcrIdle

SpecResume == InitResume /\ [][CallNext]_vars

\* runs of the sales incentive calculator of 4.py
InitSales ==
    SalesInit /\ SortIdle /\ MenuIdle /\ KeyIdle /\ CallIdle /\ OcrIdle

SpecSales == InitSales /\ [][SalesNext]_vars

\* one call of a function of a console script
InitFunctions ==
    /\ FunctionInit /\ SortIdle /\ MenuIdle /\ KeyIdle /\ SalesIdle /\ OcrIdle

SpecFunctions == InitFunctions /\ [][FunctionNext]_vars

\* one run of image_ocr_app.py
InitOcr ==
    OcrInit /\ SortIdle /\ MenuIdle /\ KeyIdle /\ CallIdle /\ SalesIdle

SpecOcr == InitOcr /\ [][OcrNext]_vars

-----------------------------------------------------------------------------
(* What a sort has to deliver *)

Count(s, v) == Cardinality({i \in DOMAIN s : s[i] = v})

IsPermutation(s, t) ==
    /\ Len(s) = Len(t)
    /\ \A v \in Vals : Count(s, v) = Count(t, v)

IsSorted(s) == \A i \in 1..(Len(s) - 1) : s[i] <= s[i + 1]

Returned(s, fn) ==
    /\ sortPc = "returned"
    /\ sortScript = s
    /\ sort_function = fn

\* C1: after shree.py's bubble_sort(arr) returns, arr is a permutation of
\* its original contents and is in non-decreasing order.
C1_ShreeBubbleSorts ==
    Returned("shree", "bubble_sort")
        => IsPermutation(arr, data) /\ IsSorted(arr)

\* C2: after bubble_sort(arr) of eye.py, nd.py and night.py returns, arr
\* (sorted in place) is a permutation of its original contents and is in
\* non-decreasing order.
C2_BubbleSortSorts ==
    \A s \in {"eye", "nd", "night"} :
        Returned(s, "bubble_sort")
            => IsPermutation(arr, data) /\ IsSorted(arr)

\* a list with a duplicate and an inversion was bubble-sorted
C2_Witness ==
    /\ Returned("night", "bubble_sort")
    /\ Len(data) >= 3
    /\ \E i, j \in DOMAIN data : i < j /\ data[i] > data[j]
    /\ \E i, j \in DOMAIN data : i < j /\ data[i] = data[j]
    /\ arr # data

\* C3: after merge_sort(arr) returns, arr (sorted in place) is a permutation
\* of its original contents and is in non-decreasing order, for the empty
\* list, one element and duplicates too, in eye.py, nd.py, night.py and
\* shree.py alike.
C3_MergeSortSorts ==
    \A s \in SortScripts :
        Returned(s, "merge_sort")
            => IsPermutation(arr, data) /\ IsSorted(arr)

\* a list with a duplicate and an inversion was merge-sorted
C3_Witness ==
    /\ Returned("shree", "merge_sort")
    /\ Len(data) >= 3
    /\ \E i, j \in DOMAIN data : i < j /\ data[i] > data[j]
    /\ \E i, j \in DOMAIN data : i < j /\ data[i] = data[j]
    /\ arr # data

\* C4: the list quick_sort(arr) of nd.py returns is a permutation of arr
\* (every value with the same multiplicity, duplicates of the pivot
\* included) and is in non-decreasing order.
C4_QuickSortSorts ==
    Returned("nd", "quick_sort")
        => /\ Len(result) = 1
           /\ IsPermutation(result[1], arr)
           /\ IsSorted(result[1])

\* an unsorted list that holds its pivot twice was quick-sorted
C4_Witness ==
    /\ Returned("nd", "quick_sort")
    /\ Len(arr) >= 3
    /\ Count(arr, Get(arr, Len(arr) \div 2)) >= 2
    /\ ~IsSorted(arr)
    /\ Len(result) = 1

-----------------------------------------------------------------------------
(* What the console scripts have to do *)

\* C5: in analyiz.py and ml_procedural.py a non-numeric entry at a prompt
\* whose answer is parsed as an integer is caught as a ValueError, and the
\* loop continues or ends normally: the script never terminates with an
\* uncaught ValueError.
C5_NoUncaughtValueError ==
    script \in {"analyiz", "ml_procedural"}
        => exc # "ValueError" /\ pc # "crashed"

\* the data file of script s is where the script looks for it
DataFileFound(s, fs) ==
    IF s = "analyiz" THEN "cwd/data.csv" \in fs
    ELSE fs \cap {"cwd/data.csv", "full/data.csv"} # {}

\* C6: in analyiz.py and ml_procedural.py, when the data file cannot be
\* found, load_data prints an error message and returns None and menu()
\* returns at once: no preprocessing, no train/test split and no menu prompt
\* happens after the failed load.
C6_FailedLoadEndsMenu ==
    \A s \in {"analyiz", "ml_procedural"} :
        (script = s /\ pc # "start" /\ ~DataFileFound(s, files))
            => /\ "Error: The file does not exist." \in out
               /\ df = "None"
               /\ pc = "done"
               /\ ~preprocessed
               /\ ~split
               /\ prompts = 0
               /\ choice = ""
               /\ ops = {}

\* ml_procedural.py ran where neither data.csv exists, and has ended
C6_Witness ==
    /\ script = "ml_procedural"
    /\ files = {"shree.csv"}
    /\ pc = "done"
    /\ df = "None"

\* the script has the input data it reads (shree.py reads none)
DataLoaded == script = "shree" \/ df = "DataFrame"

\* C7: run as the main script with its input data loaded, each menu-driven
\* script (4.py, analyiz.py, ml_procedural.py, eye.py, shree.py) enters its
\* menu loop and prompts the user: no such run ends without a menu prompt.
C7_LoadedScriptPrompts ==
    (script \in MenuScripts /\ DataLoaded /\ pc = "done") => prompts >= 1

\* the exit entry of each loop, and the operation of each other listed entry
ExitChoice == [eye |-> "4", shree |-> "3", analyiz |-> "5"]

ListedOp ==
    [eye |-> [c \in {"1", "2", "3"} |-> "run_sorting_analysis"],
     shree |-> [c \in {"1", "2"} |->
                   IF c = "1" THEN "run_analysis" ELSE "chart_menu"],
     analyiz |-> [c \in {"1", "2", "3", "4"} |->
                     CASE c = "1" -> "display_data"
                       [] c = "2" -> "choose_algorithm"
                       [] c = "3" -> "compare_two_algorithms"
                       [] c = "4" -> "compare_all_algorithms"]]

InvalidMessages ==
    {"Invalid choice. Try again.", "Invalid choice. Please try again.",
     "Invalid choice."}

\* C8: in the loops of eye.py, shree.py and analyiz.py, the loop ends only
\* when the exit choice ('4', '3', '5') is entered; an entry that is not
\* listed prints an invalid-choice message and returns to the prompt without
\* running any operation; a listed entry other than exit runs its operation
\* and returns to the prompt.
C8_MenuLoopDispatch ==
    \A s \in DOMAIN ExitChoice :
        (script = s /\ choice # "")
            => /\ pc # "prompt" => choice = ExitChoice[s]
               /\ choice \notin DOMAIN ListedOp[s] \cup {ExitChoice[s]}
                    => /\ out \cap InvalidMessages # {}
                       /\ ops = {}
                       /\ pc = "prompt"
               /\ choice \in DOMAIN ListedOp[s]
                    => /\ ListedOp[s][choice] \in ops
                       /\ pc = "prompt"

-----------------------------------------------------------------------------
(* What the key logger has to do *)

\* the places of the ESC releases among the events handled
EscReleases == {i \in DOMAIN events : events[i] = <<"release", Esc>>}

\* C9: the listener keeps running through any key presses and releases
\* with no ESC release among them and stops exactly at the first release of
\* ESC, which unblocks listener.join(); no key event is handled after it.
C9_StopsAtFirstEscRelease ==
    /\ mainPc \in {"join", "exited"} => (listening <=> EscReleases = {})
    /\ EscReleases # {} => EscReleases = {Len(events)}
    /\ mainPc = "exited" => EscReleases # {}

\* ESC was pressed, another key released, then ESC released: the logger
\* ran on until the release and has ended
C9_Witness ==
    /\ Len(events) = 3
    /\ events[1] = <<"press", Esc>>
    /\ events[2][1] = "release"
    /\ events[3] = <<"release", Esc>>
    /\ ~listening
    /\ mainPc = "exited"

\* C10: key_log.txt is opened, appended to and closed within one on_press
\* callback, at most one append is in progress at any time, and the main
\* thread, blocked in listener.join(), never has the file open while the
\* listener runs.
C10_NoFileContention ==
    /\ handles["main"] = 0
    /\ handles["listener"] <= 1
    /\ handles["listener"] = (IF cb = "none" THEN 0 ELSE 1)
    /\ cb # "none" => mainPc = "join" /\ listening
    /\ Len(key_log) =
         Cardinality({i \in DOMAIN events : events[i][1] = "press"})
           - (IF cb = "opened" THEN 1 ELSE 0)

\* a second append is in progress after the first was closed
C10_Witness ==
    /\ cb = "written"
    /\ Len(key_log) = 2
    /\ handles["listener"] = 1

-----------------------------------------------------------------------------
(* What the methods of the resume keyword extractor have to do *)

CallReturned(m) == callPc = "returned" /\ method = m

\* the sum of the importance of the entries of q at the places in I
RECURSIVE SumImportance(_, _)
SumImportance(q, I) ==
    IF I = {} THEN 0
    ELSE LET i == CHOOSE x \in I : TRUE
         IN  q[i].importance + SumImportance(q, I \ {i})

\* the fraction p is less than 1 away from n / d
Within1(p, n, d) ==
    LET diff == p.num * d - n * p.den
    IN  (IF diff < 0 THEN 0 - diff ELSE diff) < p.den * d

\* C11: _calculate_skill_match_percentage returns 100 * credit / total:
\* total is the sum of the importance of all required skills, credit the
\* full importance of each required skill that is a current skill plus 0.7
\* of the importance of each that is absent but has an alternative among
\* the current skills; the result lies between 0 and 100 inclusive.  The
\* two tests of the method expect 100 * 1.6 / 3.0 and 70, within 1.
C11_SkillMatchPercentage ==
    CallReturned("_calculate_skill_match_percentage") =>
        LET q == args.required_skills
            cur == args.current_skills
            Full == {i \in DOMAIN q : q[i].name \in cur}
            Alt == {i \in DOMAIN q : q[i].name \notin cur
                                     /\ \E a \in q[i].alternatives : a \in cur}
            total == SumImportance(q, DOMAIN q)
            credit10 == 10 * SumImportance(q, Full) + 7 * SumImportance(q, Alt)
        IN  /\ ret.den > 0
            /\ ret.num * 10 * total = 100 * credit10 * ret.den
            /\ 0 <= ret.num /\ ret.num <= 100 * ret.den
            /\ args = MatchTest => Within1(ret, 160, 3)
            /\ args = MatchAlternativesTest => Within1(ret, 70, 1)

\* a skill held, a skill replaced by its alternative and nothing else
C11_Witness ==
    /\ CallReturned("_calculate_skill_match_percentage")
    /\ Len(args.required_skills) = 2
    /\ args.current_skills = {"Python", "MongoDB"}
    /\ \E i \in 1..2 : args.required_skills[i] = Req("SQL", 10, 8, {"MongoDB"})
    /\ \E i \in 1..2 : args.required_skills[i] = Req("Python", 7, 6, {})
    /\ ret = [num |-> 100 * 140, den |-> 10 * 17]


\* C12: _identify_missing_skills returns exactly one SkillGap for each
\* required skill that is not a current skill and none for a required skill
\* the user has, ordered by decreasing importance + frequency.  The test
\* expects two gaps, JavaScript first, React, and not Python.
C12_MissingSkills ==
    CallReturned("_identify_missing_skills") =>
        LET q == args.required_skills
            Missing == {q[i].name : i \in DOMAIN q} \ args.current_skills
        IN  /\ \A n \in Missing :
                Cardinality({k \in DOMAIN ret : ret[k].missing_skill = n}) = 1
            /\ \A k \in DOMAIN ret : ret[k].missing_skill \in Missing
            /\ \A k \in DOMAIN ret : \E i \in DOMAIN q : ret[k] = SkillGap(q[i])
            /\ \A k \in 1..(Len(ret) - 1) :
                ret[k].importance + ret[k].frequency_in_jobs
                    >= ret[k + 1].importance + ret[k + 1].frequency_in_jobs
            /\ args = MissingTest =>
                /\ Len(ret) = 2
                /\ ret[1].missing_skill = "JavaScript"
                /\ ret[2].missing_skill = "React"

\* two skills are missing, the more important one listed second in the dict
C12_Witness ==
    /\ CallReturned("_identify_missing_skills")
    /\ args.current_skills = {"Python"}
    /\ Len(args.required_skills) = 2
    /\ args.required_skills[1].name = "JavaScript"
    /\ args.required_skills[2].name = "SQL"
    /\ Len(ret) = 2
    /\ ret[1].missing_skill = "SQL"
    /\ ret[1].importance + ret[1].frequency_in_jobs
         > ret[2].importance + ret[2].frequency_in_jobs

\* ---- prioritize_recommendations ----

Elems(q) == {q[i] : i \in 1..Len(q)}

PrioritizeReturned ==
    callPc = "returned" /\ method = "prioritize_recommendations"

\* C16: prioritize_recommendations(recommendations, max_recommendations = n)
\* returns at most n of the given recommendations, the most urgent priority
\* (CRITICAL) first and the least urgent (LOW) last, and no recommendation
\* it drops is more urgent than one it keeps; on the list of
\* test_prioritize_recommendations with n = 2 it returns the CRITICAL and
\* then the MEDIUM recommendation.
C16_PrioritizeRecommendations ==
    PrioritizeReturned =>
        LET recs == args.recommendations
            n == args.max_recommendations
            dropped == Elems(recs) \ Elems(ret)
        IN  /\ Len(ret) <= n
            /\ Elems(ret) \subseteq Elems(recs)
            /\ Cardinality(Elems(ret)) = Len(ret)
            /\ \A i, j \in 1..Len(ret) :
                   i < j => PriorityRank(ret[i].priority)
                                <= PriorityRank(ret[j].priority)
            /\ \A d \in dropped : \A k \in Elems(ret) :
                   PriorityRank(d.priority) >= PriorityRank(k.priority)
            /\ args = PrioritizeTest =>
                   /\ Len(ret) = 2
                   /\ ret[1].skill = "High Priority Skill"
                   /\ ret[2].skill = "Medium Priority Skill"

\* a call that drops a recommendation and keeps one that came after it
C16_Witness ==
    /\ PrioritizeReturned
    /\ Len(ret) = 2
    /\ Len(args.recommendations) = 3
    /\ args.recommendations[1] \notin Elems(ret)
    /\ args.recommendations[3] \in Elems(ret)

\* ---- _normalize_and_deduplicate ----

DeduplicateReturned ==
    callPc = "returned" /\ method = "_normalize_and_deduplicate"

\* the normalized names of the given skills
NamesOf(skills) ==
    {normalize_skill_name(skills[i].skill) : i \in 1..Len(skills)}

\* the largest confidence among the given skills of that name
BestConfidence(skills, normalized) ==
    CHOOSE c \in {skills[i].confidence : i \in 1..Len(skills)} :
        /\ \E i \in 1..Len(skills) :
               /\ normalize_skill_name(skills[i].skill) = normalized
               /\ skills[i].confidence = c
        /\ \A i \in 1..Len(skills) :
               normalize_skill_name(skills[i].skill) = normalized
                   => skills[i].confidence <= c

\* C13: _normalize_and_deduplicate returns exactly one skill for each
\* distinct normalized name of its input, and that skill is an occurrence
\* of the name with the highest confidence; duplicates_count is the number
\* of input skills minus the number returned; the mapping sends every
\* original spelling to its normalized name; on the list of
\* test_normalize_and_deduplicate it returns 3 skills, counts 4 duplicates
\* and keeps Python with confidence 0.9.
C13_NormalizeAndDeduplicate ==
    DeduplicateReturned =>
        LET kept == ret.deduplicated
        IN  /\ {kept[k].skill : k \in 1..Len(kept)} = NamesOf(args)
            /\ Cardinality(NamesOf(args)) = Len(kept)
            /\ \A k \in 1..Len(kept) :
                   /\ kept[k].confidence = BestConfidence(args, kept[k].skill)
                   /\ \E i \in 1..Len(args) :
                          /\ args[i].position = kept[k].position
                          /\ args[i].confidence = kept[k].confidence
                          /\ normalize_skill_name(args[i].skill)
                                 = kept[k].skill
            /\ ret.duplicates_count = Len(args) - Len(kept)
            /\ DOMAIN ret.normalized_mapping
                   = {args[i].skill : i \in 1..Len(args)}
            /\ \A o \in DOMAIN ret.normalized_mapping :
                   ret.normalized_mapping[o] = normalize_skill_name(o)
            /\ args = DeduplicateTest =>
                   /\ Len(kept) = 3
                   /\ ret.duplicates_count = 4
                   /\ \E k \in 1..3 : kept[k] = SkillMatch("Python", 90, 0)

\* a call where a later, more confident spelling replaced the kept one
C13_Witness ==
    /\ DeduplicateReturned
    /\ ret.duplicates_count > 0
    /\ \E k \in 1..Len(ret.deduplicated) :
           /\ ret.deduplicated[k].position > 0
           /\ \E i \in 1..Len(args) :
                  /\ args[i].position < ret.deduplicated[k].position
                  /\ normalize_skill_name(args[i].skill)
                         = ret.deduplicated[k].skill

\* ---- ResumePDFProcessor ----

ExtractReturned == callPc = "returned" /\ method = "_extract_with_pypdf2"

\* the text of the given pages, a blank line between two pages
RECURSIVE BlankLineJoined(_, _)
BlankLineJoined(pages, n) ==
    IF n = 0 THEN <<>>
    ELSE IF n = 1 THEN <<pages[1]>>
    ELSE BlankLineJoined(pages, n - 1) \o <<"\n\n", pages[n]>>

\* C14: on an encrypted PDF _extract_with_pypdf2 raises ValueError "PDF is
\* encrypted" when no password is given and ValueError "Invalid password"
\* when decrypt rejects the password; when decrypt accepts it, decrypt was
\* called exactly once, with that password, and the pages' text is
\* returned; every result has the page texts joined by a blank line as its
\* text and one entry of page_texts per page.
C14_ExtractWithPypdf2 ==
    ExtractReturned =>
        LET reader == args.reader
            pw == args.password
        IN  /\ (reader.is_encrypted /\ pw = <<>>) =>
                   /\ ret.raised = "ValueError"
                   /\ ret.message = "PDF is encrypted"
            /\ (reader.is_encrypted /\ pw # <<>> /\ ~reader.decrypt_return) =>
                   /\ ret.raised = "ValueError"
                   /\ ret.message = "Invalid password"
            /\ (reader.is_encrypted /\ pw # <<>> /\ reader.decrypt_return) =>
                   /\ ret.raised = "none"
                   /\ ret.decrypt_calls = <<pw[1]>>
            /\ ~reader.is_encrypted => ret.raised = "none"
            /\ ret.raised = "none" =>
                   /\ ret.text = BlankLineJoined(reader.pages,
                                                 Len(reader.pages))
                   /\ Len(ret.page_texts) = Len(reader.pages)
                   /\ \A k \in 1..Len(reader.pages) :
                          ret.page_texts[k] = reader.pages[k]

\* an encrypted PDF of two pages read with an accepted password
C14_Witness ==
    /\ ExtractReturned
    /\ args.reader.is_encrypted
    /\ args.password = <<"correct">>
    /\ ret.raised = "none"
    /\ Len(ret.page_texts) = 2
    /\ Len(ret.text) = 3

AnalyzeReturned == callPc = "returned" /\ method = "_analyze_pdf"

-----------------------------------------------------------------------------
(* The sales incentive calculator *)

\* the run matched a rate and showed its result
SalesComputed == salesPc = "done" /\ bonus_amount # <<>>

\* x < k for a whole number k
BelowEdge(x, k) == ~FracLe(Frac(k, 1), x)

\* the slabs whose range min <= x < max holds x
SlabsHolding(x) ==
    {k \in DOMAIN bonus_slabs :
        /\ FracLe(Frac(bonus_slabs[k].min, 1), x)
        /\ BelowEdge(x, bonus_slabs[k].max)}

\* C17: for 0 <= sales_lakh < 999 exactly one slab matches, lower bounds
\* inclusive and upper bounds exclusive: [0,5) gives 0%, [5,10) gives 10%,
\* [10,15) gives 12%, [15,999) gives 15%; for sales_lakh < 0 or
\* sales_lakh >= 999 no slab matches, the rate is 0 and the 'No bonus
\* applicable' warning is shown.
C17_SlabMatching ==
    SalesComputed =>
        LET x == sales_lakh[1]
            rate == matched_bonus[1]
        IN  IF FracLe(Frac(0, 1), x) /\ BelowEdge(x, 999)
            THEN /\ Cardinality(SlabsHolding(x)) = 1
                 /\ rate = IF BelowEdge(x, 5) THEN 0
                           ELSE IF BelowEdge(x, 10) THEN 10
                           ELSE IF BelowEdge(x, 15) THEN 12
                           ELSE 15
            ELSE /\ SlabsHolding(x) = {}
                 /\ rate = 0
                 /\ "No bonus applicable for this sales amount." \in shown

\* 500000 rupees are exactly 5 lakh, the inclusive lower bound of 10%
C17_Witness ==
    /\ SalesComputed
    /\ raw_sales = <<Frac(500000, 1)>>
    /\ sales_lakh = <<Frac(5, 1)>>
    /\ matched_bonus = <<10>>
    /\ "Bonus Summary" \in shown

\* C18: an entry greater than 1000 is taken as rupees and divided by
\* 100000 to give lakh, an entry of 1000 or less is taken as lakh
\* unchanged, and the bonus amount is the matched rate percent of the
\* sales in rupees.
C18_UnitsAndBonus ==
    SalesComputed =>
        LET raw == raw_sales[1]
            rupees == FracMul(sales_lakh[1], Frac(100000, 1))
        IN  /\ IF FracLe(raw, Frac(1000, 1))
               THEN sales_lakh[1] = raw
               ELSE rupees = raw
            /\ FracMul(bonus_amount[1], Frac(100, 1))
                   = FracMul(Frac(matched_bonus[1], 1), rupees)

\* the prompt's example 1250000: 12.5 lakh at 12% is 150000 rupees
C18_Witness ==
    /\ SalesComputed
    /\ raw_sales = <<Frac(1250000, 1)>>
    /\ sales_lakh = <<Frac(125, 10)>>
    /\ bonus_amount = <<Frac(150000, 1)>>

\* C19: the bonus rate is non-decreasing in the sales amount: of the sales
\* of two runs, in lakh after unit detection, the smaller never has the
\* larger rate.
C19_RateNonDecreasing ==
    (previous # <<>> /\ matched_bonus # <<>>) =>
        LET a == previous[1]
            b == [sales_lakh |-> sales_lakh[1],
                  matched_bonus |-> matched_bonus[1]]
        IN  /\ FracLe(a.sales_lakh, b.sales_lakh)
                   => a.matched_bonus <= b.matched_bonus
            /\ FracLe(b.sales_lakh, a.sales_lakh)
                   => b.matched_bonus <= a.matched_bonus

-----------------------------------------------------------------------------
(* image_ocr_app.py *)

\* the display size was computed
OcrResized ==
    /\ image_file # <<>>
    /\ \/ ocrPc = "display"
       \/ ocrOut \cap {"Uploaded Image", "Error processing image"} # {}

\* C20: for every uploaded image size the dimensions computed for display
\* fit the bounds, new_width <= 800 and new_height <= 600, are both at
\* least 1, and keep the aspect ratio (up to the fraction int() drops).
C20_DisplaySizeFits ==
    OcrResized =>
        LET img_width == image_file[1].size[1]
            img_height == image_file[1].size[2]
        IN  /\ new_width <= max_width
            /\ new_height <= max_height
            /\ new_width >= 1
            /\ new_height >= 1
            /\ Abs(new_width * img_height - new_height * img_width)
                   < img_width + img_height

\* C21: once the 'Extract Text & Generate Summary' handler has created the
\* temporary image file, the file is deleted before the run ends, on every
\* path: normal completion, the no-text stop, and an exception raised by
\* image saving, OCR, summarization or keyword extraction.
C21_TempFileDeleted ==
    ocrPc = "done" => tmp_files = {}

\* C22: when load_model_with_fallback returned None for the summarizer, no
\* run evaluates summarizer(...), whatever the length of the text.
C22_SummarizerOnlyWhenLoaded ==
    summarizer = "None" => summarizer_calls = 0

-----------------------------------------------------------------------------
(* Functions of the console scripts *)

FunctionReturned(fn) == callPc = "returned" /\ method = fn

\* C23: ml_procedural.display_data prints at most 200 rows for every
\* integer entered at its prompt, zero and negative numbers included, and
\* for an entry that is no integer it prints 'Please enter a valid number.'
\* and no rows.
C23_DisplayDataRows ==
    FunctionReturned("display_data") =>
        /\ ret.printed_rows <= 200
        /\ int_raises(args.entry) =>
               /\ ret.out = {"Please enter a valid number."}
               /\ ret.printed_rows = 0

\* the score the call was given for a scored algorithm
ScoreOf(algo) ==
    IF algo = "Linear Regression" THEN args.mse ELSE args.accuracy

\* C24: compare_all_algorithms reports as best fit the entry with the
\* smallest score among the float results, Linear Regression's MSE and
\* KNN's accuracy, whatever the metrics mean; K-Means Clustering, whose
\* result is a string, is never the best fit and is plotted as 0.
C24_BestFitIsSmallestFloat ==
    FunctionReturned("compare_all_algorithms") =>
        /\ ret.best_fit_algo \in {"Linear Regression", "KNN"}
        /\ ret.best_fit_value = ScoreOf(ret.best_fit_algo)
        /\ \A algo \in {"Linear Regression", "KNN"} :
               ret.best_fit_value <= ScoreOf(algo)
        /\ \A k \in 1..Len(ret.bars) :
               ret.bars[k].height =
                   IF ret.bars[k].algo = "K-Means Clustering" THEN 0
                   ELSE ScoreOf(ret.bars[k].algo)
        /\ \E k \in 1..Len(ret.bars) :
               ret.bars[k].algo = "K-Means Clustering"

\* an accuracy of 0.5 beats a mean squared error of 2500
C24_Witness ==
    /\ FunctionReturned("compare_all_algorithms")
    /\ args.mse = 250000
    /\ args.accuracy = 50
    /\ ret.best_fit_algo = "KNN"
    /\ ret.best_fit_value = 50

\* C25: in eye.py's run_sorting_analysis bubble_sort and merge_sort leave
\* their copies in the same final state, element by element, and the
\* original list data is changed by neither.
C25_SameFinalState ==
    FunctionReturned("run_sorting_analysis") =>
        /\ Len(ret.bubble_sorted) = Len(ret.merge_sorted)
        /\ \A k \in 1..Len(ret.bubble_sorted) :
               ret.bubble_sorted[k] = ret.merge_sorted[k]
        /\ ret.data = args

\* an unsorted list with a repeated element
C25_Witness ==
    /\ FunctionReturned("run_sorting_analysis")
    /\ args = <<2, 0, 2, 0 - 1>>
    /\ ret.bubble_sorted = <<0 - 1, 0, 2, 2>>
    /\ ret.merge_sorted = <<0 - 1, 0, 2, 2>>

=============================================================================
